---- MODULE Spec2Model ----
(***************************************************************************)
(* The deferred rendering pipeline of graphics_experiments: the WebGL2 and *)
(* the WebGPU implementation of Renderer.resize and Renderer.renderFrame,  *)
(* driven by the Engine frame loop.                                        *)
(*                                                                         *)
(* Scene geometry lies on the world x axis: a draw call covers the sample  *)
(* pixel pix and its surface point is at world x = pix.  Vectors are their *)
(* x component, so normalize is the sign and dot is the product.  Depths   *)
(* are in thousandths, colours in units of 1/ColorOne, shadow factors in   *)
(* ninths (the 3x3 filter).  A texel written in an earlier frame is kept   *)
(* as stale: its stamp is "old" and its value is dropped.                  *)
(***************************************************************************)
EXTENDS Integers, Sequences, FiniteSets, TLC

\* ---- bounds of the model
NPix == 2
MaxDraws == 2
ShadowW == 3
MaxTicks == 3

\* ---- program constants
BLOOM_PASSES == 5
SHADOW_SIZE == 1024
DepthClear == 1000
Bias == 5
EmissiveScale == 5

\* fixed-point unit of a colour channel (1.0), and the depth of every
\* rasterised surface point as the camera sees it
ColorOne == 9 * 100
FragDepth == DepthClear \div 2

Pixels == 1..NPix
ShadowTexels == 0..(ShadowW - 1)
Backends == {"webgl2", "webgpu"}
Black == <<0, 0, 0>>
White == <<ColorOne, ColorOne, ColorOne>>

Max(a, b) == IF a > b THEN a ELSE b
Min(a, b) == IF a < b THEN a ELSE b
Sign(v) == IF v > 0 THEN 1 ELSE IF v < 0 THEN -1 ELSE 0

\* ---- inputs of a frame
NoLVP == [ax |-> 0, bx |-> 0, az |-> 0, bz |-> 0, w |-> 0, given |-> FALSE]
ZeroMat == [ax |-> 0, bx |-> 0, az |-> 0, bz |-> 0, w |-> 0, given |-> TRUE]
\* a light looking along the x axis: every point projects to the map centre,
\* depth grows with x
LvpAlong == [ax |-> 0, bx |-> 0, az |-> 500, bz |-> -750, w |-> 1, given |-> TRUE]
LVPs == {LvpAlong}

DrawCallSet == [pix : Pixels, emissive : BOOLEAN, normalMap : BOOLEAN]
SeqsUpTo(S, n) == UNION {[1..k -> S] : k \in 0..n}
DrawLists == SeqsUpTo(DrawCallSet, MaxDraws)
UniformSet == [lightPos : {0}, cameraPos : {0}, lightViewProj : LVPs \cup {NoLVP}]
OptionSet == [shadows : BOOLEAN, normalMaps : BOOLEAN, postProcessing : BOOLEAN]
\* client sizes the canvas can report, a collapsed canvas included
SurfaceSizes == {<<4, 2>>, <<3, 1>>, <<0, 0>>}

\* outcomes of the division by w = 0 in shadowCalc: NaN, or some finite value
NaNProj == [nan |-> TRUE, u |-> 0, z |-> 0]
DivZeroOutcomes == {NaNProj, [nan |-> FALSE, u |-> 500, z |-> 500]}

VARIABLES backend, pc, canvas, rd, fr, px, boot, eng

vars == <<backend, pc, canvas, rd, fr, px, boot, eng>>

\* ---- texels
FreshShadowTexel == [d |-> 0, st |-> "none"]
FreshG == [x |-> 0, a |-> 0, n |-> 0, nw |-> 0, hn |-> FALSE, dc |-> 0, alb |-> Black,
           z |-> 0, sP |-> "none", sN |-> "none", sA |-> "none", sZ |-> "none"]
FreshH == [kind |-> "none", rgb |-> Black, sh |-> -1, gst |-> "none", sst |-> "none",
           st |-> "none"]
FreshB == [st |-> "none", by |-> "none", n |-> 0, rdst |-> "none"]
FreshS == [sceneSt |-> "none", bloomSt |-> "none", st |-> "none"]
NoBufId == [pool |-> "none", k |-> 0]
FreshBuf == [x |-> 0, lvp |-> ZeroMat, hn |-> FALSE, em |-> FALSE, st |-> "none",
             id |-> NoBufId]
\* device.createBuffer: the k-th buffer pushed onto the named pool
CreateBuffer(name, k) == [FreshBuf EXCEPT !.id = [pool |-> name, k |-> k]]

Age(s) == IF s = "cur" THEN "old" ELSE s
Worst(s, t) == IF s = "none" \/ t = "none" THEN "none"
               ELSE IF s = "old" \/ t = "old" THEN "old" ELSE "cur"

\* ---- renderer state after construction, and the instrumentation of a frame
\* gen tells, for each screen-sized resource, whether it has never been
\* allocated ("none"), was allocated by the latest rebuild ("live") or is
\* left from before it ("stale")
NoGen == [gbuf |-> "none", hdr |-> "none", bloom |-> "none"]

\* ---- the global GL state the WebGL2 frame touches (unused on WebGPU)
NoGl == [depthTest |-> FALSE, cullFace |-> FALSE, cullMode |-> "none"]
\* a fresh context has both capabilities off and cull mode BACK; the
\* constructor enables the depth test
InitGl == [depthTest |-> TRUE, cullFace |-> FALSE, cullMode |-> "BACK"]
GlEnable(g, cap) == [g EXCEPT ![cap] = TRUE]
GlDisable(g, cap) == [g EXCEPT ![cap] = FALSE]
GlCullFace(g, mode) == [g EXCEPT !.cullMode = mode]

InitRenderer ==
  [D |-> <<0, 0>>, gsize |-> <<0, 0>>, hsize |-> <<0, 0>>, bsize |-> <<0, 0>>,
   gen |-> NoGen,
   shadow |-> [size |-> <<SHADOW_SIZE, SHADOW_SIZE>>, made |-> 1],
   maxDraws |-> 0,
   shadowTex |-> [t \in ShadowTexels |-> FreshShadowTexel],
   gbuf |-> [p \in Pixels |-> FreshG],
   hdr |-> [p \in Pixels |-> FreshH],
   bloom |-> [i \in {0, 1} |-> FreshB],
   screen |-> [p \in Pixels |-> FreshS],
   lightLVP |-> ZeroMat,
   shadowPool |-> <<>>, gbufPool |-> <<>>,
   gl |-> InitGl]

NoOptions == [shadows |-> FALSE, normalMaps |-> FALSE, postProcessing |-> FALSE]
NoUniforms == [lightPos |-> 0, cameraPos |-> 0, lightViewProj |-> NoLVP]
NoParams == [bloomStrength |-> 0, exposure |-> 0, toneMap |-> FALSE]
IdleFrame == [drawCalls |-> <<>>, u |-> NoUniforms, opts |-> NoOptions, passLog |-> <<>>,
              shadowDrawn |-> <<>>, gbufDrawn |-> <<>>, gbufBinds |-> <<>>,
              shadowBufs |-> <<>>, gbufBufs |-> <<>>,
              glEntry |-> NoGl, glLog |-> <<>>,
              bloomVps |-> <<>>, gensUsed |-> {}, reads |-> <<>>,
              params |-> NoParams,
              shadowSeen |-> [t \in ShadowTexels |-> FreshShadowTexel]]
NewFrame(dcs, u, opts) == [IdleFrame EXCEPT !.drawCalls = dcs, !.u = u, !.opts = opts]

Log(s, pass, target) ==
  [s EXCEPT !.f.passLog = Append(@, [pass |-> pass, target |-> target])]

\* ---- resize / rebuild
\* variant: the half size is not clamped
BloomDimFloor(d) == d \div 2

BloomDim(d) == Max(1, d \div 2)

ZeroArea(sz) == sz[1] = 0 \/ sz[2] = 0

\* WebGL2 checks each framebuffer after attaching; an attachment without
\* pixels makes it incomplete and checkFBO throws.  WebGPU's createTexture
\* reports a validation error and returns an invalid texture instead.
RebuildThrows(b, sz) == b = "webgl2" /\ ZeroArea(sz)

Retire(g) == IF g = "live" THEN "stale" ELSE g

\* variant: the shadow target is recreated with the surface's size as well
RebuildGBufferAndShadow(r, sz) ==
  [r EXCEPT !.D = sz, !.gsize = sz,
            !.gbuf = [p \in Pixels |-> FreshG],
            !.gen = [gbuf |-> "live", hdr |-> Retire(@.hdr), bloom |-> Retire(@.bloom)],
            !.shadow = [size |-> sz, made |-> 2]]

RebuildGBuffer(r, sz) ==
  [r EXCEPT !.D = sz, !.gsize = sz,
            !.gbuf = [p \in Pixels |-> FreshG],
            !.gen = [gbuf |-> "live", hdr |-> Retire(@.hdr), bloom |-> Retire(@.bloom)]]

\* variant: the HDR texture is cleared but keeps the extent it had
RebuildHdrKeepSize(r, sz) ==
  [r EXCEPT !.hdr = [p \in Pixels |-> FreshH], !.gen.hdr = "live"]

RebuildHdr(r, sz) ==
  [r EXCEPT !.hsize = sz, !.hdr = [p \in Pixels |-> FreshH], !.gen.hdr = "live"]

\* variant: the bloom pair of the previous size is kept
RebuildBloomKeep(r, sz) == r

RebuildBloom(r, sz) ==
  [r EXCEPT !.bsize = <<BloomDim(sz[1]), BloomDim(sz[2])>>,
            !.bloom = [i \in {0, 1} |-> FreshB], !.gen.bloom = "live"]

Rebuild(b, r, sz) ==
  IF RebuildThrows(b, sz) THEN RebuildGBuffer(r, sz)
  ELSE RebuildBloom(RebuildHdr(RebuildGBuffer(r, sz), sz), sz)

\* variant: every call rebuilds
ResizeAlways(b, r, sz) == Rebuild(b, r, sz)

ResizeRenderer(b, r, sz) == IF r.D # sz THEN Rebuild(b, r, sz) ELSE r

ResizeThrows(b, r, sz) == r.D # sz /\ RebuildThrows(b, sz)

\* every screen-sized resource has storage, and the storage has pixels
Sized(r) ==
  /\ r.gen.gbuf # "none" /\ r.gen.hdr # "none" /\ r.gen.bloom # "none"
  /\ ~ZeroArea(r.gsize) /\ ~ZeroArea(r.hsize) /\ ~ZeroArea(r.bsize)

\* ---- per-draw-call uniform buffers (WebGPU)
RECURSIVE GrowPool(_, _, _)
GrowPool(pool, n, name) ==
  IF Len(pool) < n THEN GrowPool(Append(pool, CreateBuffer(name, Len(pool) + 1)), n, name)
  ELSE pool

\* variant: the pools are reallocated to the frame's draw-call count
GrowPoolsExact(b, r, n) ==
  IF b = "webgpu"
  THEN [r EXCEPT !.shadowPool = [i \in 1..n |-> CreateBuffer("shadow", i)],
                 !.gbufPool = [i \in 1..n |-> CreateBuffer("gbuf", i)],
                 !.maxDraws = Max(@, n)]
  ELSE r

GrowPools(b, r, n) ==
  IF b = "webgpu"
  THEN [r EXCEPT !.shadowPool = GrowPool(@, n, "shadow"),
                 !.gbufPool = GrowPool(@, n, "gbuf"),
                 !.maxDraws = Max(@, n)]
  ELSE r

\* ---- pass 1: shadow
\* variant: the depth target is bound but not cleared
ShadowKeep(tex) == tex

ShadowClear(tex) == [t \in ShadowTexels |-> [d |-> DepthClear, st |-> "cur"]]

ShadowEnabled(opts, u) == opts.shadows /\ u.lightViewProj.given

ShadowCasts(b, dc) == IF b = "webgpu" THEN ~dc.emissive ELSE TRUE

LightClip(lvp, x) ==
  [u |-> (lvp.ax * x + lvp.bx) \div 2 + DepthClear \div 2,
   z |-> (lvp.az * x + lvp.bz) \div 2 + DepthClear \div 2]

TexelIndex(u) == Max(0, Min(ShadowW - 1, (u * ShadowW) \div DepthClear))

ShadowDraw(tex, lvp, x) ==
  LET c == LightClip(lvp, x) IN
  IF lvp.w = 0 \/ c.u < 0 \/ c.u > DepthClear \/ c.z < 0 \/ c.z > DepthClear THEN tex
  ELSE LET t == TexelIndex(c.u) IN
       IF c.z < tex[t].d THEN [tex EXCEPT ![t] = [d |-> c.z, st |-> "cur"]] ELSE tex

\* the pool slot of draw call i
ShadowBufIndex(i) == i

\* queue.writeBuffer for each caster in turn; a later write to the same
\* buffer replaces the earlier one before any draw executes
RECURSIVE ShadowWritesFrom(_, _, _, _)
ShadowWritesFrom(pool, dcs, lvp, i) ==
  IF i > Len(dcs) THEN pool
  ELSE IF dcs[i].emissive THEN ShadowWritesFrom(pool, dcs, lvp, i + 1)
  ELSE LET j == ShadowBufIndex(i)
           w == [FreshBuf EXCEPT !.x = dcs[i].pix, !.lvp = lvp, !.st = "cur",
                                 !.id = pool[j].id]
       IN ShadowWritesFrom([pool EXCEPT ![j] = w], dcs, lvp, i + 1)

ShadowUniformWrites(pool, dcs, lvp) == ShadowWritesFrom(pool, dcs, lvp, 1)

RECURSIVE ShadowDraws(_, _, _, _, _, _)
ShadowDraws(b, tex, dcs, pool, lvp, i) ==
  IF i > Len(dcs) THEN [tex |-> tex, drawn |-> <<>>]
  ELSE IF ~ShadowCasts(b, dcs[i]) THEN ShadowDraws(b, tex, dcs, pool, lvp, i + 1)
  ELSE LET x == IF b = "webgpu" THEN pool[ShadowBufIndex(i)].x ELSE dcs[i].pix
           m == IF b = "webgpu" THEN pool[ShadowBufIndex(i)].lvp ELSE lvp
           rest == ShadowDraws(b, ShadowDraw(tex, m, x), dcs, pool, lvp, i + 1)
       IN [tex |-> rest.tex, drawn |-> <<i>> \o rest.drawn]

ShadowPass(b, s) ==
  LET dcs == s.f.drawCalls
      lvp == s.f.u.lightViewProj
      on == ShadowEnabled(s.f.opts, s.f.u)
      cleared == ShadowClear(s.r.shadowTex)
      pool == IF b = "webgpu" /\ on
              THEN ShadowUniformWrites(s.r.shadowPool, dcs, lvp) ELSE s.r.shadowPool
      res == IF on THEN ShadowDraws(b, cleared, dcs, pool, lvp, 1)
             ELSE [tex |-> cleared, drawn |-> <<>>]
      bufs == IF b = "webgpu"
              THEN [k \in 1..Len(res.drawn) |-> pool[ShadowBufIndex(res.drawn[k])].id]
              ELSE <<>>
      cull == b = "webgl2" /\ on
      gIn == IF cull THEN GlCullFace(GlEnable(s.r.gl, "cullFace"), "FRONT") ELSE s.r.gl
      gOut == IF cull THEN GlDisable(GlCullFace(gIn, "BACK"), "cullFace") ELSE s.r.gl
  IN Log([s EXCEPT !.r.shadowTex = res.tex, !.r.shadowPool = pool,
                   !.f.shadowDrawn = res.drawn, !.f.shadowBufs = bufs,
                   !.f.glEntry = s.r.gl, !.f.glLog = Append(@, gIn), !.r.gl = gOut],
         "shadow", "shadowDepth")

\* ---- pass 2: G-Buffer
ClearedG == [x |-> 0, a |-> 0, n |-> 0, nw |-> 0, hn |-> FALSE, dc |-> 0, alb |-> Black,
             z |-> DepthClear, sP |-> "cur", sN |-> "cur", sA |-> "cur", sZ |-> "cur"]

\* variant: the colour and depth targets are loaded, not cleared
GBufKeep(tex) == tex

GBufClear(tex) == [p \in Pixels |-> ClearedG]

\* variant: the option is not consulted
HasNormalAnyMap(opts, dc) == dc.normalMap

HasNormal(opts, dc) == opts.normalMaps /\ dc.normalMap

\* the texture bound to the normal-map slot and the flag uploaded with it
NormalBinding(hasNormal) ==
  [tex |-> IF hasNormal THEN "own" ELSE "flat", hasNormalMap |-> IF hasNormal THEN 1 ELSE 0]

GBufNormalW(b, em) == IF b = "webgpu" THEN (IF em THEN 1 ELSE 0) ELSE 1

\* the fragment written for a surface point at world x; a bound normal map
\* turns the normal around, the geometric normal is +x
GBufFrag(b, x, hn, em, alb, i) ==
  [x |-> x, a |-> 1, n |-> IF hn THEN -1 ELSE 1, nw |-> GBufNormalW(b, em), hn |-> hn,
   dc |-> i, alb |-> alb, z |-> FragDepth,
   sP |-> "cur", sN |-> "cur", sA |-> "cur", sZ |-> "cur"]

GBufDraw(tex, p, frag) ==
  IF p \in Pixels /\ frag.z < tex[p].z THEN [tex EXCEPT ![p] = frag] ELSE tex

\* variant: every draw call binds the first buffer of the pool
FirstBuffer(i) == 1

\* the pool slot of draw call i
GBufBufIndex(i) == i

RECURSIVE GBufWritesFrom(_, _, _, _)
GBufWritesFrom(pool, dcs, opts, i) ==
  IF i > Len(dcs) THEN pool
  ELSE LET j == GBufBufIndex(i)
           w == [FreshBuf EXCEPT !.x = dcs[i].pix, !.hn = HasNormal(opts, dcs[i]),
                                 !.em = dcs[i].emissive, !.st = "cur",
                                 !.id = pool[j].id]
       IN GBufWritesFrom([pool EXCEPT ![j] = w], dcs, opts, i + 1)

GBufUniformWrites(pool, dcs, opts) == GBufWritesFrom(pool, dcs, opts, 1)

RECURSIVE GBufDraws(_, _, _, _, _, _)
GBufDraws(b, tex, dcs, pool, opts, i) ==
  IF i > Len(dcs) THEN tex
  ELSE LET x == IF b = "webgpu" THEN pool[GBufBufIndex(i)].x ELSE dcs[i].pix
           hn == IF b = "webgpu" THEN pool[GBufBufIndex(i)].hn ELSE HasNormal(opts, dcs[i])
           em == IF b = "webgpu" THEN pool[GBufBufIndex(i)].em ELSE FALSE
       IN GBufDraws(b, GBufDraw(tex, x, GBufFrag(b, x, hn, em, White, i)),
                    dcs, pool, opts, i + 1)

GBufferPass(b, s) ==
  LET dcs == s.f.drawCalls
      pool == IF b = "webgpu" THEN GBufUniformWrites(s.r.gbufPool, dcs, s.f.opts)
              ELSE s.r.gbufPool
      tex == GBufDraws(b, GBufClear(s.r.gbuf), dcs, pool, s.f.opts, 1)
      binds == [i \in 1..Len(dcs) |->
                  [tex |-> NormalBinding(HasNormal(s.f.opts, dcs[i])).tex,
                   hasNormalMap |->
                     IF b = "webgpu" THEN NormalBinding(pool[GBufBufIndex(i)].hn).hasNormalMap
                     ELSE NormalBinding(HasNormal(s.f.opts, dcs[i])).hasNormalMap]]
  IN Log([s EXCEPT !.r.gbuf = tex, !.r.gbufPool = pool,
                   !.f.gbufDrawn = [i \in 1..Len(dcs) |-> i],
                   !.f.gbufBinds = binds,
                   !.f.glLog = Append(@, s.r.gl),
                   !.f.gbufBufs = IF b = "webgpu"
                                  THEN [i \in 1..Len(dcs) |-> pool[GBufBufIndex(i)].id]
                                  ELSE <<>>,
                   !.f.gensUsed = @ \cup {s.r.gen.gbuf}], "gbuf", "gbuf")

\* ---- pass 3: lighting
\* the matrix the lighting shader sees: WebGL2 leaves the program's uniform as
\* it was when the frame supplies none, WebGPU uploads a zero-filled buffer
LightUniformLVP(b, prev, u) ==
  IF u.lightViewProj.given THEN u.lightViewProj
  ELSE IF b = "webgpu" THEN ZeroMat ELSE prev

\* projCoords * 0.5 + 0.5 of a world position; dz is what the division by a
\* zero w produced
ProjCoords(lvp, x, dz) ==
  IF lvp.w = 0 THEN dz
  ELSE [nan |-> FALSE, u |-> LightClip(lvp, x).u, z |-> LightClip(lvp, x).z]

PcfTexel(pc0, dx) == Max(0, Min(ShadowW - 1, TexelIndex(pc0.u) + dx))

\* shadow factor in ninths; the rows of the 3x3 kernel are alike in a world
\* with one axis, so each column counts three times
ShadowCalc(b, tex, lvp, x, dz) ==
  LET p == ProjCoords(lvp, x, dz)
      outside == ~p.nan /\ (p.u < 0 \/ p.u > DepthClear \/ p.z > DepthClear)
  IN IF b = "webgl2"
     THEN IF outside THEN 9
          ELSE 3 * ((IF ~p.nan /\ p.z - Bias > tex[PcfTexel(p, -1)].d THEN 0 ELSE 1)
                  + (IF ~p.nan /\ p.z - Bias > tex[PcfTexel(p, 0)].d THEN 0 ELSE 1)
                  + (IF ~p.nan /\ p.z - Bias > tex[PcfTexel(p, 1)].d THEN 0 ELSE 1))
     ELSE LET shadow ==
                3 * ((IF ~p.nan /\ p.z - Bias < tex[PcfTexel(p, -1)].d THEN 1 ELSE 0)
                   + (IF ~p.nan /\ p.z - Bias < tex[PcfTexel(p, 0)].d THEN 1 ELSE 0)
                   + (IF ~p.nan /\ p.z - Bias < tex[PcfTexel(p, 1)].d THEN 1 ELSE 0))
          IN IF outside THEN 9 ELSE shadow

ShadowStamps(tex) ==
  IF \E t \in ShadowTexels : tex[t].st = "none" THEN "none"
  ELSE IF \E t \in ShadowTexels : tex[t].st = "old" THEN "old" ELSE "cur"

Scale(rgb, num, den) ==
  <<(rgb[1] * num) \div den, (rgb[2] * num) \div den, (rgb[3] * num) \div den>>
Add3(a, c) == <<a[1] + c[1], a[2] + c[2], a[3] + c[3]>>

BackgroundColor(b) == IF b = "webgl2" THEN <<72, 72, 108>> ELSE Black

\* Blinn-Phong on the x axis: reflect(-L, N) = 2 (N.L) N - L, and a unit R
\* along V gives pow(1, 32) * 2
Lit(alb, n, x, sh, lightPos, cameraPos) ==
  LET L == Sign(lightPos - x)
      V == Sign(cameraPos - x)
      N == Sign(n)
      R == 2 * (N * L) * N - L
      diffuse == Max(N * L, 0)
      specular == IF R * V > 0 THEN 2 ELSE 0
  IN Add3(Add3(Scale(alb, 15, 100), Scale(alb, diffuse * sh, 9)),
          Scale(White, specular * sh, 9))

\* variant: the emissive select is applied after the background select
LightFragEmissiveFirst(b, g, sh, lightPos, cameraPos) ==
  IF g.nw >= 1 /\ b = "webgpu"
  THEN [kind |-> "emissive", rgb |-> Scale(g.alb, EmissiveScale, 1)]
  ELSE IF g.a = 0 THEN [kind |-> "background", rgb |-> BackgroundColor(b)]
  ELSE [kind |-> "lit", rgb |-> Lit(g.alb, g.n, g.x, sh, lightPos, cameraPos)]

LightFrag(b, g, sh, lightPos, cameraPos) ==
  IF b = "webgl2"
  THEN IF g.a = 0 THEN [kind |-> "background", rgb |-> BackgroundColor(b)]
       ELSE [kind |-> "lit", rgb |-> Lit(g.alb, g.n, g.x, sh, lightPos, cameraPos)]
  ELSE IF g.a = 0 THEN [kind |-> "background", rgb |-> BackgroundColor(b)]
       ELSE IF g.nw >= 1 THEN [kind |-> "emissive", rgb |-> Scale(g.alb, EmissiveScale, 1)]
       ELSE [kind |-> "lit", rgb |-> Lit(g.alb, g.n, g.x, sh, lightPos, cameraPos)]

\* WebGL2 returns the background before shadowCalc is reached; WGSL evaluates
\* shadowCalc for every pixel and selects afterwards
ShadowEvaluated(b, g) == b = "webgpu" \/ g.a # 0

LightTexel(b, g, tex, lvp, u, dz) ==
  LET ev == ShadowEvaluated(b, g)
      sh == IF ev THEN ShadowCalc(b, tex, lvp, g.x, dz) ELSE -1
      out == LightFrag(b, g, sh, u.lightPos, u.cameraPos)
  IN [kind |-> out.kind, rgb |-> out.rgb, sh |-> sh,
      gst |-> Worst(Worst(g.sP, g.sN), g.sA),
      sst |-> IF ev THEN ShadowStamps(tex) ELSE "none",
      st |-> "cur"]

\* the fullscreen passes need no depth test
GlFullscreen(b, g) == IF b = "webgl2" THEN GlDisable(g, "depthTest") ELSE g

LightingPass(b, s, dz) ==
  LET lvp == LightUniformLVP(b, s.r.lightLVP, s.f.u)
      g == GlFullscreen(b, s.r.gl)
  IN Log([s EXCEPT !.r.lightLVP = lvp,
                   !.r.gl = g, !.f.glLog = Append(@, g),
                   !.r.hdr = [p \in Pixels |->
                                LightTexel(b, s.r.gbuf[p], s.r.shadowTex, lvp, s.f.u, dz)],
                   !.f.shadowSeen = s.r.shadowTex,
                   !.f.gensUsed = @ \cup {s.r.gen.gbuf, s.r.gen.hdr}],
         "light", "hdr")

\* ---- passes 4 and 5: bloom
HdrStamps(hdr) ==
  IF \E p \in Pixels : hdr[p].st = "none" THEN "none"
  ELSE IF \E p \in Pixels : hdr[p].st = "old" THEN "old" ELSE "cur"

\* the half-resolution size renderFrame computes from the recorded size
FrameBloomDims(r) == <<BloomDim(r.D[1]), BloomDim(r.D[2])>>

\* the viewport of a bloom pass and the size its blur step is derived from:
\* WebGL2 sets the viewport, WebGPU takes the attachment's extent
BloomVp(b, r) ==
  [vp |-> IF b = "webgl2" THEN FrameBloomDims(r) ELSE r.bsize,
   step |-> FrameBloomDims(r)]

BloomExtractPass(b, s) ==
  Log([s EXCEPT !.r.bloom[0] = [st |-> "cur", by |-> "extract", n |-> 0,
                                rdst |-> HdrStamps(s.r.hdr)],
                !.f.bloomVps = Append(@, BloomVp(b, s.r)),
                !.f.gensUsed = @ \cup {s.r.gen.hdr, s.r.gen.bloom},
                !.f.reads = Append(@, {"hdr"}),
                !.f.glLog = Append(@, s.r.gl)],
      "extract", "bloom0")

\* variant: the vertical pass blurs texture 0 in place
BlurIterationInPlace(b, s, i) ==
  LET h == Log([s EXCEPT !.r.bloom[1] = [st |-> "cur", by |-> "blurH", n |-> i,
                                         rdst |-> s.r.bloom[0].st],
                         !.f.bloomVps = Append(@, BloomVp(b, s.r)),
                         !.f.reads = Append(@, {"bloom0"}),
                         !.f.glLog = Append(@, s.r.gl)],
               "blurH", "bloom1")
  IN Log([h EXCEPT !.r.bloom[0] = [st |-> "cur", by |-> "blurV", n |-> i,
                                   rdst |-> h.r.bloom[0].st],
                   !.f.bloomVps = Append(@, BloomVp(b, h.r)),
                   !.f.reads = Append(@, {"bloom0"}),
                   !.f.glLog = Append(@, h.r.gl)],
         "blurV", "bloom0")

BlurIteration(b, s, i) ==
  LET h == Log([s EXCEPT !.r.bloom[1] = [st |-> "cur", by |-> "blurH", n |-> i,
                                         rdst |-> s.r.bloom[0].st],
                         !.f.bloomVps = Append(@, BloomVp(b, s.r)),
                         !.f.reads = Append(@, {"bloom0"}),
                         !.f.glLog = Append(@, s.r.gl)],
               "blurH", "bloom1")
  IN Log([h EXCEPT !.r.bloom[0] = [st |-> "cur", by |-> "blurV", n |-> i,
                                   rdst |-> h.r.bloom[1].st],
                   !.f.bloomVps = Append(@, BloomVp(b, h.r)),
                   !.f.reads = Append(@, {"bloom1"}),
                   !.f.glLog = Append(@, h.r.gl)],
         "blurV", "bloom0")

RECURSIVE BlurPasses(_, _, _)
BlurPasses(b, s, i) ==
  IF i >= BLOOM_PASSES THEN s ELSE BlurPasses(b, BlurIteration(b, s, i + 1), i + 1)

\* variant: the bloom passes are not gated by the option
BloomAlways(b, s) == BlurPasses(b, BloomExtractPass(b, s), 0)

BloomPasses(b, s) ==
  IF s.f.opts.postProcessing THEN BlurPasses(b, BloomExtractPass(b, s), 0) ELSE s

\* ---- pass 6: composite; strength and exposure in tenths
\* variant: the bloom strength does not follow the option
CompositeParamsBloom(pp) == [bloomStrength |-> 3, exposure |-> 10, toneMap |-> pp]

CompositeParams(pp) ==
  [bloomStrength |-> IF pp THEN 3 ELSE 0, exposure |-> 10, toneMap |-> pp]

\* variant: the composite pass renders into an offscreen target
CompositeOffscreen(b, s) ==
  Log([s EXCEPT !.f.params = CompositeParams(s.f.opts.postProcessing)],
      "composite", "bloom1")

\* variant: the frame ends with the depth test still off
GlAfterFrameKeep(b, g) == g

\* the last statement of the WebGL2 frame
GlAfterFrame(b, g) == IF b = "webgl2" THEN GlEnable(g, "depthTest") ELSE g

CompositePass(b, s) ==
  Log([s EXCEPT !.f.params = CompositeParams(s.f.opts.postProcessing),
                !.f.gensUsed = @ \cup {s.r.gen.hdr, s.r.gen.bloom},
                !.f.reads = Append(@, {"hdr", "bloom0"}),
                !.f.glLog = Append(@, s.r.gl),
                !.r.gl = GlAfterFrame(b, s.r.gl),
                !.r.screen = [p \in Pixels |->
                                [sceneSt |-> s.r.hdr[p].st, bloomSt |-> s.r.bloom[0].st,
                                 st |-> "cur"]]],
      "composite", "screen")

\* variant: the lighting pass is issued before the geometry pass
RenderPassesLightFirst(b, s, dz) ==
  CompositePass(b, BloomPasses(b, GBufferPass(b, LightingPass(b, ShadowPass(b, s), dz))))

RenderPasses(b, s, dz) ==
  CompositePass(b, BloomPasses(b, LightingPass(b, GBufferPass(b, ShadowPass(b, s)), dz)))

\* a frame whose draws reached no screen-sized target and no pixel of the
\* output, and one whose command buffer was never executed
KeepTargets(old, s) ==
  [s EXCEPT !.r.gbuf = old.gbuf, !.r.hdr = old.hdr, !.r.bloom = old.bloom,
            !.r.screen = old.screen]

KeepShadow(old, s) == [s EXCEPT !.r.shadowTex = old.shadowTex]

\* renderFrame as the Engine calls it.  With every resource sized the passes
\* run.  Otherwise: WebGL2 issues every call, and the draws into incomplete
\* framebuffers and the zero-area output are dropped with a GL error; WebGPU
\* throws at the G-Buffer pass descriptor when the views were never created,
\* and has the submission rejected when a view is of an invalid texture (the
\* buffer writes on the queue have happened by then).
RenderFrameCall(b, s, dz) ==
  IF Sized(s.r) THEN [s |-> RenderPasses(b, s, dz), pc |-> "rendered"]
  ELSE IF b = "webgl2"
  THEN [s |-> KeepTargets(s.r, RenderPasses(b, s, dz)), pc |-> "failed"]
  ELSE IF s.r.gen.gbuf = "none"
  THEN [s |-> KeepShadow(s.r, ShadowPass(b, s)), pc |-> "crashed"]
  ELSE [s |-> KeepShadow(s.r, KeepTargets(s.r, RenderPasses(b, s, dz))), pc |-> "failed"]

\* ---- the frame boundary: what a frame wrote is stale in the next one
AgeAll(r) ==
  [r EXCEPT
     !.shadowTex = [t \in ShadowTexels |->
                      [FreshShadowTexel EXCEPT !.st = Age(r.shadowTex[t].st)]],
     !.gbuf = [p \in Pixels |->
                 [FreshG EXCEPT !.sP = Age(r.gbuf[p].sP), !.sN = Age(r.gbuf[p].sN),
                                !.sA = Age(r.gbuf[p].sA), !.sZ = Age(r.gbuf[p].sZ)]],
     !.hdr = [p \in Pixels |-> [FreshH EXCEPT !.st = Age(r.hdr[p].st)]],
     !.bloom = [i \in {0, 1} |-> [FreshB EXCEPT !.st = Age(r.bloom[i].st)]],
     !.screen = [p \in Pixels |-> [FreshS EXCEPT !.st = Age(r.screen[p].st)]],
     !.shadowPool = [i \in 1..Len(r.shadowPool) |->
                       [FreshBuf EXCEPT !.st = Age(r.shadowPool[i].st),
                                        !.id = r.shadowPool[i].id]],
     !.gbufPool = [i \in 1..Len(r.gbufPool) |->
                     [FreshBuf EXCEPT !.st = Age(r.gbufPool[i].st),
                                        !.id = r.gbufPool[i].id]]]

\* ---- the composite fragment shader, by value
\* pow(c, 1/2.2) at c = 0, 0.1, ... 1.0, in units of 1/ColorOne
GammaTable == <<0, 316, 433, 521, 593, 657, 714, 765, 813, 858, 900>>

\* above 1.0 the power is continued by its tangent at 1, slope 1/2.2
Gamma(c) ==
  IF c > ColorOne THEN ColorOne + ((c - ColorOne) * 5) \div 11
  ELSE GammaTable[(c * 10) \div ColorOne + 1]

\* clamp((x (2.51 x + 0.03)) / (x (2.43 x + 0.59) + 0.14), 0, 1)
\* variant: the curve without its clamp
AcesUnclamped(c) ==
  LET num == (c * ((251 * c) \div 100 + 27)) \div ColorOne
      den == (c * ((243 * c) \div 100 + 531)) \div ColorOne + 126
  IN (num * ColorOne) \div den

Aces(c) ==
  LET num == (c * ((251 * c) \div 100 + 27)) \div ColorOne
      den == (c * ((243 * c) \div 100 + 531)) \div ColorOne + 126
  IN Max(0, Min(ColorOne, (num * ColorOne) \div den))

CompositeFrag(scene, bloom, params) ==
  LET hdr == Add3(scene, Scale(bloom, params.bloomStrength, 10))
      e == Scale(hdr, params.exposure, 10)
  IN IF params.toneMap
     THEN <<Gamma(Aces(e[1])), Gamma(Aces(e[2])), Gamma(Aces(e[3]))>>
     ELSE hdr

\* ---- one pixel through the three shaders, inputs chosen freely
Albedos == {White, <<180, 360, 900>>}
ShadowFactors == {0, 6, 9}
LightPositions == {0, NPix + 1}
BloomContents == {Black, <<450, 0, 2700>>, <<2700, 2700, 2700>>, <<27000, 27000, 27000>>}

GTexels ==
  {[ClearedG EXCEPT !.x = x, !.a = a, !.n = n, !.nw = nw, !.alb = alb] :
     x \in Pixels, a \in {0, 1}, n \in {-1, 1}, nw \in {0, 1}, alb \in Albedos}

NoPx == [stage |-> "off", g |-> FreshG, geom |-> FALSE, covered |-> FALSE, em |-> FALSE,
         sh |-> 0, lightPos |-> 0, cameraPos |-> 0, bloom |-> Black, pp |-> FALSE,
         h |-> [kind |-> "none", rgb |-> Black], out |-> Black]

PxInputs ==
  {[NoPx EXCEPT !.stage = "in", !.g = g, !.sh = sh, !.lightPos = lp, !.cameraPos = cp,
                !.bloom = bl, !.pp = pp] :
     g \in GTexels, sh \in ShadowFactors, lp \in LightPositions, cp \in LightPositions,
     bl \in BloomContents, pp \in BOOLEAN}

\* ---- startup (main.ts): the state of createRenderer, of main and of the loop
NoBoot == [stage |-> "off", param |-> "none", gpu |-> FALSE, renderer |-> "none",
           made |-> 0, tried |-> <<>>, failed |-> {}, diags |-> <<>>, obj |-> "pending",
           main |-> "off", loop |-> "off", frames |-> 0]

\* ---- the Engine object and its Scene: entities, the requestAnimationFrame
\* bookkeeping and the position inside the running loop callback
NoBuilt == [drawCalls |-> <<>>, version |-> 0]
NoEngine == [entities |-> <<>>, version |-> 0, rafId |-> 0, issued |-> 0, pending |-> {},
             at |-> "off", calls |-> <<>>, built |-> NoBuilt, given |-> NoBuilt,
             ticks |-> 0, renders |-> 0, starts |-> 0, stopped |-> FALSE]

\* ---- the Engine frame loop
Init ==
  /\ backend \in Backends
  /\ pc = "idle"
  /\ canvas = <<300, 150>>
  /\ rd = InitRenderer
  /\ fr = IdleFrame
  /\ px = NoPx
  /\ boot = NoBoot
  /\ eng = NoEngine

Resize ==
  /\ pc = "idle"
  /\ \E sz \in SurfaceSizes :
       /\ canvas' = sz
       /\ rd' = ResizeRenderer(backend, rd, sz)
       /\ pc' = IF ResizeThrows(backend, rd, sz) THEN "crashed" ELSE "resized"
  /\ UNCHANGED <<backend, fr, px, boot, eng>>

RenderFrame ==
  /\ pc = "resized"
  /\ \E dcs \in DrawLists, u \in UniformSet, opts \in OptionSet :
       \E dz \in (IF LightUniformLVP(backend, rd.lightLVP, u).w = 0
                  THEN DivZeroOutcomes ELSE {NaNProj}) :
         LET res == RenderFrameCall(backend,
                                    [r |-> GrowPools(backend, rd, Len(dcs)),
                                     f |-> NewFrame(dcs, u, opts)], dz)
         IN /\ rd' = res.s.r
            /\ fr' = res.s.f
            /\ pc' = res.pc
  /\ UNCHANGED <<backend, canvas, px, boot, eng>>

\* an exception leaves the tick before requestAnimationFrame is reached
NextTick ==
  /\ pc \in {"rendered", "failed"}
  /\ pc' = "idle"
  /\ rd' = AgeAll(rd)
  /\ fr' = IdleFrame
  /\ UNCHANGED <<backend, canvas, px, boot, eng>>

Next == Resize \/ RenderFrame \/ NextTick

Spec == Init /\ [][Next]_vars

\* ---- the shaders applied to one pixel: geometry, lighting, composite
ShadeInit ==
  /\ backend \in Backends
  /\ pc = "shade"
  /\ canvas = <<300, 150>>
  /\ rd = InitRenderer
  /\ fr = IdleFrame
  /\ px \in PxInputs
  /\ boot = NoBoot
  /\ eng = NoEngine

\* the G-Buffer pass at this pixel: the clear, then at most one draw call
ShadeGeometry ==
  /\ px.stage = "in"
  /\ \E covered \in BOOLEAN, em \in BOOLEAN, hn \in BOOLEAN :
       LET cleared == GBufClear([p \in Pixels |-> px.g])
           frag == GBufFrag(backend, px.g.x, hn, em, px.g.alb, 1)
           tex == IF covered THEN GBufDraw(cleared, px.g.x, frag) ELSE cleared
       IN px' = [px EXCEPT !.stage = "geom", !.g = tex[px.g.x], !.geom = TRUE,
                           !.covered = covered, !.em = covered /\ em]
  /\ UNCHANGED <<backend, pc, canvas, rd, fr, boot, eng>>

ShadeLighting ==
  /\ px.stage \in {"in", "geom"}
  /\ px' = [px EXCEPT !.stage = "lit",
                      !.h = LightFrag(backend, px.g, px.sh, px.lightPos, px.cameraPos)]
  /\ UNCHANGED <<backend, pc, canvas, rd, fr, boot, eng>>

ShadeComposite ==
  /\ px.stage = "lit"
  /\ px' = [px EXCEPT !.stage = "done",
                      !.out = CompositeFrag(px.h.rgb, px.bloom, CompositeParams(px.pp))]
  /\ UNCHANGED <<backend, pc, canvas, rd, fr, boot, eng>>

ShadeNext == ShadeGeometry \/ ShadeLighting \/ ShadeComposite

SpecShade == ShadeInit /\ [][ShadeNext]_vars

\* ---- startup: createRenderer and main, one action per step between awaits
BackendParams == {"none", "webgpu", "webgl2"}
GpuOutcomes == {"ok", "No WebGPU adapter found", "requestDevice rejected",
                "Failed to get WebGPU context"}
GlOutcomes == {"ok", "WebGL2 not supported", "EXT_color_buffer_float not supported",
               "Shader error", "Link error"}

\* variant: the query parameter is not consulted
WantsWebGPUAnyway(bt) == bt.gpu

WantsWebGPU(bt) == bt.param # "webgl2" /\ bt.gpu

Created(bt, which) ==
  [bt EXCEPT !.stage = "created", !.renderer = which, !.made = @ + 1,
             !.tried = Append(@, which)]

\* the catch block of createRenderer: warn, then go on to WebGL2
WebGPUFailed(bt, why) ==
  [bt EXCEPT !.stage = "glInit", !.tried = Append(@, "webgpu"),
             !.failed = @ \cup {"webgpu"},
             !.diags = Append(@, [level |-> "warn",
                                  text |-> "WebGPU init failed, falling back to WebGL2"])]

\* variant: the constructor's error is swallowed and an instance is returned
WebGL2FailedQuietly(bt, why) ==
  [bt EXCEPT !.stage = "created", !.renderer = "webgl2", !.made = @ + 1,
             !.tried = Append(@, "webgl2"), !.failed = @ \cup {"webgl2"}]

\* the constructor throws; createRenderer's promise rejects with the error
WebGL2Failed(bt, why) ==
  [bt EXCEPT !.stage = "rejected", !.tried = Append(@, "webgl2"),
             !.failed = @ \cup {"webgl2"}]

StartInit ==
  /\ backend = "webgl2"
  /\ pc = "boot"
  /\ canvas = <<300, 150>>
  /\ rd = InitRenderer
  /\ fr = IdleFrame
  /\ px = NoPx
  /\ boot \in {[NoBoot EXCEPT !.stage = "select", !.main = "awaiting", !.param = p,
                               !.gpu = g] : p \in BackendParams, g \in BOOLEAN}
  /\ eng = NoEngine

CreateWebGPU ==
  /\ boot.stage = "select"
  /\ WantsWebGPU(boot)
  /\ \E out \in GpuOutcomes :
       boot' = IF out = "ok" THEN Created(boot, "webgpu") ELSE WebGPUFailed(boot, out)
  /\ UNCHANGED <<backend, pc, canvas, rd, fr, px, eng>>

SkipWebGPU ==
  /\ boot.stage = "select"
  /\ ~WantsWebGPU(boot)
  /\ boot' = [boot EXCEPT !.stage = "glInit"]
  /\ UNCHANGED <<backend, pc, canvas, rd, fr, px, eng>>

CreateWebGL2 ==
  /\ boot.stage = "glInit"
  /\ \E out \in GlOutcomes :
       boot' = IF out = "ok" THEN Created(boot, "webgl2") ELSE WebGL2Failed(boot, out)
  /\ UNCHANGED <<backend, pc, canvas, rd, fr, px, eng>>

\* loadObj runs beside createRenderer under Promise.all
LoadObj ==
  /\ boot.obj = "pending"
  /\ \E out \in {"ok", "failed"} : boot' = [boot EXCEPT !.obj = out]
  /\ UNCHANGED <<backend, pc, canvas, rd, fr, px, eng>>

\* both promises fulfilled: main builds the scene and calls engine.start()
MainStart ==
  /\ boot.main = "awaiting"
  /\ boot.stage = "created"
  /\ boot.obj = "ok"
  /\ boot' = [boot EXCEPT !.main = "started", !.loop = "running"]
  /\ UNCHANGED <<backend, pc, canvas, rd, fr, px, eng>>

\* one of the promises rejected: main().catch replaces the page by the error
MainCatch ==
  /\ boot.main = "awaiting"
  /\ boot.stage = "rejected" \/ boot.obj = "failed"
  /\ boot' = [boot EXCEPT !.main = "halted",
                          !.diags = Append(@, [level |-> "error", text |-> "error page"])]
  /\ UNCHANGED <<backend, pc, canvas, rd, fr, px, eng>>

\* one tick of the loop; a tick that throws (resize's checkFBO, renderFrame)
\* does not reach requestAnimationFrame
Tick ==
  /\ boot.loop = "running"
  /\ boot.frames < MaxTicks
  /\ \E ok \in BOOLEAN :
       boot' = IF ok THEN [boot EXCEPT !.frames = @ + 1]
               ELSE [boot EXCEPT !.loop = "dead"]
  /\ UNCHANGED <<backend, pc, canvas, rd, fr, px, eng>>

StartNext ==
  CreateWebGPU \/ SkipWebGPU \/ CreateWebGL2 \/ LoadObj \/ MainStart \/ MainCatch \/ Tick

SpecStart == StartInit /\ [][StartNext]_vars

\* a settled promise's reactions run, and createRenderer runs on after its
\* catch block
SpecStartFair ==
  SpecStart /\ WF_vars(CreateWebGL2) /\ WF_vars(SkipWebGPU) /\ WF_vars(MainCatch)

\* ---- Engine.start / Engine.stop and the loop callback, call by call
MaxEntities == 2
MaxRaf == 4
MaxStarts == 2

\* an entity: its material and whether its onUpdate callback calls engine.stop()
PlainEntity == [emissive |-> FALSE, normalMap |-> FALSE, stops |-> FALSE]
EntityKinds ==
  {PlainEntity, [PlainEntity EXCEPT !.emissive = TRUE],
   [PlainEntity EXCEPT !.normalMap = TRUE], [PlainEntity EXCEPT !.stops = TRUE]}
EntityLists == UNION {[1..n -> EntityKinds] : n \in 0..MaxEntities}

\* Entity.drawCall: mesh, texture, normalMap and model are copied; no emissive
\* property is set, so a reader of dc.emissive gets undefined (falsy)
DrawCallOf(e, i) == [mesh |-> i, normalMap |-> e.normalMap, emissive |-> FALSE]

\* Scene.buildFrame: entities.map(e => e.drawCall())
BuildFrame(es) == [i \in 1..Len(es) |-> DrawCallOf(es[i], i)]

\* this._rafId = requestAnimationFrame(loop)
RequestAnimationFrame(e) ==
  [e EXCEPT !.issued = @ + 1, !.rafId = e.issued + 1, !.pending = @ \cup {e.issued + 1}]

\* cancelAnimationFrame(this._rafId): a handle that already fired, or 0, cancels
\* nothing
CancelAnimationFrame(e) == [e EXCEPT !.pending = @ \ {e.rafId}, !.stopped = TRUE]

CallOutcomes == {"returns", "throws"}

\* variant: the frame is built before the scene is updated
StepAfterBuildFirst(step) ==
  CASE step = "resize" -> "build"
    [] step = "build" -> "update"
    [] step = "update" -> "render"
    [] step = "render" -> "schedule"
    [] OTHER -> "idle"

\* the statement of the loop body that follows a statement
StepAfter(step) ==
  CASE step = "resize" -> "update"
    [] step = "update" -> "build"
    [] step = "build" -> "render"
    [] step = "render" -> "schedule"
    [] OTHER -> "idle"

Called(e, name) == [e EXCEPT !.calls = Append(@, name)]

LoopInit ==
  /\ backend = "webgl2"
  /\ pc = "loop"
  /\ canvas = <<300, 150>>
  /\ rd = InitRenderer
  /\ fr = IdleFrame
  /\ px = NoPx
  /\ boot = NoBoot
  /\ eng \in {[NoEngine EXCEPT !.entities = es, !.at = "idle"] : es \in EntityLists}

\* engine.start(), called between callbacks
EngineStart ==
  /\ eng.at = "idle"
  /\ eng.starts < MaxStarts
  /\ eng.issued < MaxRaf
  /\ eng' = [RequestAnimationFrame(eng) EXCEPT !.starts = @ + 1, !.stopped = FALSE]
  /\ UNCHANGED <<backend, pc, canvas, rd, fr, px, boot>>

\* engine.stop(), called between callbacks
EngineStop ==
  /\ eng.at = "idle"
  /\ eng' = CancelAnimationFrame(eng)
  /\ UNCHANGED <<backend, pc, canvas, rd, fr, px, boot>>

\* the browser runs the oldest pending callback
LoopFire ==
  /\ eng.at = "idle"
  /\ eng.pending # {}
  /\ LET id == CHOOSE i \in eng.pending : \A j \in eng.pending : i <= j
     IN eng' = [eng EXCEPT !.pending = @ \ {id}, !.at = "resize", !.calls = <<>>,
                           !.ticks = @ + 1]
  /\ UNCHANGED <<backend, pc, canvas, rd, fr, px, boot>>

\* this.renderer.resize(); an exception ends the callback
LoopResize ==
  /\ eng.at = "resize"
  /\ \E out \in CallOutcomes :
       eng' = [Called(eng, "resize") EXCEPT
                 !.at = IF out = "returns" THEN StepAfter("resize") ELSE "idle"]
  /\ UNCHANGED <<backend, pc, canvas, rd, fr, px, boot>>

\* this.scene.update(time): every entity's onUpdate runs
LoopUpdate ==
  /\ eng.at = "update"
  /\ LET e1 == [Called(eng, "update") EXCEPT !.version = eng.ticks,
                                              !.at = StepAfter("update")]
     IN eng' = IF \E i \in 1..Len(eng.entities) : eng.entities[i].stops
               THEN CancelAnimationFrame(e1) ELSE e1
  /\ UNCHANGED <<backend, pc, canvas, rd, fr, px, boot>>

\* this.scene.buildFrame(this.renderer.aspect)
LoopBuild ==
  /\ eng.at = "build"
  /\ eng' = [Called(eng, "buildFrame") EXCEPT
               !.built = [drawCalls |-> BuildFrame(eng.entities), version |-> eng.version],
               !.at = StepAfter("build")]
  /\ UNCHANGED <<backend, pc, canvas, rd, fr, px, boot>>

\* this.renderer.renderFrame(drawCalls, uniforms, this.options)
LoopRender ==
  /\ eng.at = "render"
  /\ \E out \in CallOutcomes :
       eng' = [Called(eng, "renderFrame") EXCEPT
                 !.given = eng.built, !.renders = @ + 1,
                 !.at = IF out = "returns" THEN StepAfter("render") ELSE "idle"]
  /\ UNCHANGED <<backend, pc, canvas, rd, fr, px, boot>>

\* this._rafId = requestAnimationFrame(loop), the last statement of the callback
LoopSchedule ==
  /\ eng.at = "schedule"
  /\ eng.issued < MaxRaf
  /\ eng' = [RequestAnimationFrame(Called(eng, "schedule")) EXCEPT
               !.at = StepAfter("schedule")]
  /\ UNCHANGED <<backend, pc, canvas, rd, fr, px, boot>>

LoopNext ==
  \/ EngineStart \/ EngineStop \/ LoopFire \/ LoopResize
  \/ LoopUpdate \/ LoopBuild \/ LoopRender \/ LoopSchedule

SpecLoop == LoopInit /\ [][LoopNext]_vars

\* ---- properties
PassNames(log) == [i \in 1..Len(log) |-> log[i].pass]
Count(log, name) == Cardinality({i \in 1..Len(log) : log[i].pass = name})
Rendered == pc = "rendered"
Occupied(p) == rd.gbuf[p].a # 0

\* C1: a frame with postProcessing on issues shadow, geometry, lighting,
\* bloom-extract, five blur iterations (horizontal then vertical) and composite,
\* in this order and nothing else, on both backends.
C1_PassOrder ==
  (Rendered /\ fr.opts.postProcessing) =>
    PassNames(fr.passLog) =
      <<"shadow", "gbuf", "light", "extract",
        "blurH", "blurV", "blurH", "blurV", "blurH", "blurV", "blurH", "blurV",
        "blurH", "blurV", "composite">>

\* C1 witness: a post-processed frame with draw calls, after an earlier frame
C1_Witness ==
  /\ Rendered
  /\ fr.opts.postProcessing
  /\ Len(fr.drawCalls) = MaxDraws
  /\ Len(fr.passLog) = 5 + 2 * BLOOM_PASSES
  /\ rd.lightLVP = LvpAlong /\ ~fr.u.lightViewProj.given

\* C2: every G-Buffer texel the lighting pass reads carries the stamp of the
\* current frame: the geometry pass cleared it (occupancy 0, depth 1.0) and
\* then drew into it; nothing of an earlier frame or of a fresh allocation is
\* read.
C2_GBufferFresh ==
  Rendered =>
    \A p \in Pixels :
      /\ rd.hdr[p].gst = "cur"
      /\ rd.gbuf[p].sZ = "cur"
      /\ ~Occupied(p) => rd.gbuf[p] = ClearedG
      /\ Occupied(p) => /\ rd.gbuf[p].dc \in 1..Len(fr.drawCalls)
                        /\ fr.drawCalls[rd.gbuf[p].dc].pix = p

\* C2 witness: a frame that follows an earlier frame on the same targets and
\* leaves one pixel empty and one covered
C2_Witness ==
  /\ Rendered
  /\ rd.bloom[0].st = "old"
  /\ \E p \in Pixels : ~Occupied(p)
  /\ \E p \in Pixels : Occupied(p)

\* C3: in every frame the composite pass runs exactly once, as the last pass,
\* and renders to the output surface.
C3_CompositeLast ==
  Rendered =>
    /\ Len(fr.passLog) > 0
    /\ fr.passLog[Len(fr.passLog)] = [pass |-> "composite", target |-> "screen"]
    /\ Count(fr.passLog, "composite") = 1
    /\ \A i \in 1..Len(fr.passLog) :
         fr.passLog[i].target = "screen" => fr.passLog[i].pass = "composite"
    /\ \A p \in Pixels : rd.screen[p].st = "cur"

\* C3 witness: a frame with an empty draw-call list and every option off
C3_Witness ==
  /\ Rendered
  /\ fr.drawCalls = <<>>
  /\ fr.opts = NoOptions
  /\ \A p \in Pixels : rd.screen[p].st = "cur"

\* C4: with postProcessing off no bloom-extract and no blur pass runs, no bloom
\* texture is written, and composite gets strength 0 and no tone mapping; with
\* it on, extract and all blur passes run and composite gets a non-zero
\* strength with tone mapping.
C4_BloomGating ==
  Rendered =>
    IF fr.opts.postProcessing
    THEN /\ Count(fr.passLog, "extract") = 1
         /\ Count(fr.passLog, "blurH") = BLOOM_PASSES
         /\ Count(fr.passLog, "blurV") = BLOOM_PASSES
         /\ rd.bloom[0].st = "cur" /\ rd.bloom[1].st = "cur"
         /\ fr.params.bloomStrength > 0
         /\ fr.params.toneMap
    ELSE /\ Count(fr.passLog, "extract") = 0
         /\ Count(fr.passLog, "blurH") = 0
         /\ Count(fr.passLog, "blurV") = 0
         /\ rd.bloom[0].st # "cur" /\ rd.bloom[1].st # "cur"
         /\ fr.params.bloomStrength = 0
         /\ ~fr.params.toneMap

\* C4 witness: a frame without post-processing whose bloom textures still hold
\* what an earlier post-processed frame wrote
C4_Witness ==
  /\ Rendered
  /\ ~fr.opts.postProcessing
  /\ rd.bloom[0].st = "old" /\ rd.bloom[1].st = "old"
  /\ \A p \in Pixels : rd.screen[p].bloomSt = "old"

\* C5: with postProcessing off the composite shader outputs the HDR scene
\* value unchanged, whatever the bloom texel holds.
C5_ZeroStrengthIdentity ==
  (px.stage = "done" /\ ~px.pp) => px.out = px.h.rgb

\* C5 witness: a lit pixel composited without post-processing over a non-black
\* bloom texel
C5_Witness ==
  /\ px.stage = "done"
  /\ ~px.pp
  /\ px.bloom # Black
  /\ px.h.kind = "lit"
  /\ px.out # Black

\* C6: the lighting pass always finds a shadow target cleared in this frame;
\* with shadows off or no light view-projection nothing was drawn into it and
\* every texel holds the clear depth 1.0.
C6_ShadowCleared ==
  Rendered =>
    /\ \A t \in ShadowTexels :
         fr.shadowSeen[t].st = "cur" /\ fr.shadowSeen[t].d <= DepthClear
    /\ ~ShadowEnabled(fr.opts, fr.u) =>
         /\ fr.shadowDrawn = <<>>
         /\ \A t \in ShadowTexels : fr.shadowSeen[t] = [d |-> DepthClear, st |-> "cur"]

\* C6 witness: shadows switched off while a light matrix and draw calls are
\* supplied, in a frame that follows an earlier one
C6_Witness ==
  /\ Rendered
  /\ ~fr.opts.shadows
  /\ fr.u.lightViewProj.given
  /\ Len(fr.drawCalls) > 0
  /\ rd.bloom[0].st = "old"
  /\ \A t \in ShadowTexels : rd.shadowTex[t].d = DepthClear

\* C7: with shadows off or no light view-projection the shadow factor of every
\* occupied pixel is exactly 1 (nine ninths), on both backends.
C7_ShadowFactorOne ==
  (Rendered /\ ~ShadowEnabled(fr.opts, fr.u)) =>
    \A p \in Pixels : Occupied(p) => rd.hdr[p].sh = 9

\* C8: when the shadow pass draws, it draws exactly the draw calls that are not
\* emissive, on both backends.
C8_ShadowCasters ==
  (Rendered /\ ShadowEnabled(fr.opts, fr.u)) =>
    /\ {fr.shadowDrawn[i] : i \in 1..Len(fr.shadowDrawn)}
         = {i \in 1..Len(fr.drawCalls) : ~fr.drawCalls[i].emissive}
    /\ Len(fr.shadowDrawn)
         = Cardinality({i \in 1..Len(fr.drawCalls) : ~fr.drawCalls[i].emissive})

\* C9: a pixel covered by an emissive draw call is flagged in the G-Buffer and
\* comes out of the lighting pass as albedo times the emissive scale; a pixel
\* covered by any other draw call is not flagged and is lit; on both backends.
C9_EmissiveBypass ==
  Rendered =>
    \A p \in Pixels :
      Occupied(p) =>
        IF fr.drawCalls[rd.gbuf[p].dc].emissive
        THEN /\ rd.gbuf[p].nw = 1
             /\ rd.hdr[p].kind = "emissive"
             /\ rd.hdr[p].rgb = Scale(rd.gbuf[p].alb, EmissiveScale, 1)
        ELSE /\ rd.gbuf[p].nw = 0
             /\ rd.hdr[p].kind = "lit"

\* C10: a G-Buffer texel with occupancy 0 comes out of the lighting shader as
\* the backend's background colour, whatever its other channels hold, the
\* emissive flag included.
C10_BackgroundFirst ==
  (px.stage \in {"lit", "done"} /\ px.g.a = 0) =>
    /\ px.h.kind = "background"
    /\ px.h.rgb = BackgroundColor(backend)

\* C10 witness: an unoccupied texel whose normal target carries the emissive
\* flag, with the pixel fully in shadow
C10_Witness ==
  /\ px.stage = "lit"
  /\ px.g.a = 0
  /\ px.g.nw = 1
  /\ px.sh = 0
  /\ px.h.kind = "background"

\* C11: the geometry pass binds a draw call's own normal map, with
\* hasNormalMap = 1, exactly when the normalMaps option is on and the draw call
\* supplies one; otherwise it binds the flat 1x1 texture with hasNormalMap = 0.
\* A draw call without a normal map therefore gets the flat binding, flag 0
\* and the geometric normal in the G-Buffer whatever the option is.
C11_NormalBinding ==
  Rendered =>
    /\ Len(fr.gbufBinds) = Len(fr.drawCalls)
    /\ \A i \in 1..Len(fr.drawCalls) :
         /\ (fr.opts.normalMaps /\ fr.drawCalls[i].normalMap)
               => fr.gbufBinds[i] = [tex |-> "own", hasNormalMap |-> 1]
         /\ ~(fr.opts.normalMaps /\ fr.drawCalls[i].normalMap)
               => fr.gbufBinds[i] = [tex |-> "flat", hasNormalMap |-> 0]
    /\ \A p \in Pixels :
         Occupied(p) =>
           LET dc == fr.drawCalls[rd.gbuf[p].dc]
           IN /\ rd.gbuf[p].hn = (fr.opts.normalMaps /\ dc.normalMap)
              /\ ~dc.normalMap => rd.gbuf[p].n = 1

\* a frame with normalMaps on that draws one call with and one without a map
C11_Witness ==
  /\ Rendered
  /\ fr.opts.normalMaps
  /\ \E p, q \in Pixels :
       /\ Occupied(p) /\ ~fr.drawCalls[rd.gbuf[p].dc].normalMap /\ rd.gbuf[p].n = 1
       /\ Occupied(q) /\ fr.drawCalls[rd.gbuf[q].dc].normalMap /\ rd.gbuf[q].n = -1
       /\ fr.gbufBinds[rd.gbuf[p].dc].tex = "flat"
       /\ fr.gbufBinds[rd.gbuf[q].dc].tex = "own"

AllLive == [gbuf |-> "live", hdr |-> "live", bloom |-> "live"]
ResizeReturned == pc = "idle" /\ pc' = "resized"

ResizeCalled == canvas \in SurfaceSizes

C15_BloomHalfSize ==
  /\ (pc # "crashed" /\ rd.gen.bloom = "live") =>
       /\ rd.bsize[1] = (IF rd.D[1] \div 2 >= 1 THEN rd.D[1] \div 2 ELSE 1)
       /\ rd.bsize[2] = (IF rd.D[2] \div 2 >= 1 THEN rd.D[2] \div 2 ELSE 1)
       /\ rd.bsize[1] >= 1 /\ rd.bsize[2] >= 1
  /\ Rendered =>
       /\ Len(fr.bloomVps) = (IF fr.opts.postProcessing THEN 1 + 2 * BLOOM_PASSES ELSE 0)
       /\ \A i \in 1..Len(fr.bloomVps) :
            fr.bloomVps[i].vp = rd.bsize /\ fr.bloomVps[i].step = rd.bsize

\* bloom passes on a surface one pixel high, whose half height rounds to 0
C15_Witness ==
  /\ Rendered
  /\ fr.opts.postProcessing
  /\ rd.D = <<3, 1>>
  /\ rd.bsize = <<1, 1>>
  /\ Len(fr.bloomVps) = 11

\* C16: when resize() detects a surface without area, every screen-sized
\* resource is allocated with at least one pixel in each axis and the frame
\* of that tick is rendered.
C16_ZeroAreaClamped ==
  (ResizeCalled /\ ZeroArea(canvas)) =>
    /\ pc \notin {"failed", "crashed"}
    /\ pc \in {"resized", "rendered"} =>
         /\ rd.gen = AllLive
         /\ rd.gsize[1] >= 1 /\ rd.gsize[2] >= 1
         /\ rd.hsize[1] >= 1 /\ rd.hsize[2] >= 1
         /\ rd.bsize[1] >= 1 /\ rd.bsize[2] >= 1

\* C17: the shadow depth target is the one made at construction, 1024 by
\* 1024; no resize(), rebuild or frame makes another or changes its extent.
C17_ShadowTargetFixed ==
  /\ rd.shadow.made = 1
  /\ rd.shadow.size = <<1024, 1024>>

\* the shadow target after a rebuild for a second size and a frame that drew
\* into it
C17_Witness ==
  /\ Rendered
  /\ rd.D = <<3, 1>>
  /\ fr.shadowDrawn # <<>>
  /\ \A p \in Pixels : rd.screen[p].sceneSt = "cur" /\ rd.screen[p].bloomSt = "none"
  /\ rd.shadow.made = 1

\* C18: on WebGPU each of the two pools of per-draw-call uniform buffers is
\* as long as the largest draw-call count any frame has passed so far, 0
\* before the first frame, and no step makes a pool shorter.
C18_PoolsFollowMax ==
  /\ [](backend = "webgpu" =>
          /\ Len(rd.shadowPool) = rd.maxDraws
          /\ Len(rd.gbufPool) = rd.maxDraws)
  /\ [][/\ Len(rd'.shadowPool) >= Len(rd.shadowPool)
        /\ Len(rd'.gbufPool) >= Len(rd.gbufPool)
        /\ Len(rd'.shadowPool) > Len(rd.shadowPool) => Len(rd'.shadowPool) = Len(fr'.drawCalls)
        /\ Len(rd'.gbufPool) > Len(rd.gbufPool) => Len(rd'.gbufPool) = Len(fr'.drawCalls)]_vars

\* a frame with fewer draw calls than an earlier one: the pools keep their
\* length
C18_Witness ==
  /\ backend = "webgpu"
  /\ Rendered
  /\ Len(fr.drawCalls) = 1
  /\ rd.maxDraws = 2
  /\ Len(rd.shadowPool) = 2 /\ Len(rd.gbufPool) = 2

Tried(b) == Cardinality({i \in 1..Len(boot.tried) : boot.tried[i] = b})
Diags(level) == Cardinality({i \in 1..Len(boot.diags) : boot.diags[i].level = level})

C20_BackendSelection ==
  /\ [](/\ Tried("webgpu") > 0 => (boot.param # "webgl2" /\ boot.gpu)
        /\ (boot.param # "webgl2" /\ boot.gpu /\ boot.tried # <<>>)
             => boot.tried[1] = "webgpu"
        /\ Tried("webgl2") > 0
             => (boot.param = "webgl2" \/ ~boot.gpu \/ "webgpu" \in boot.failed)
        /\ boot.made <= 1
        /\ (boot.loop # "off" \/ boot.frames > 0)
             => (boot.made = 1 /\ boot.renderer \in {"webgpu", "webgl2"}
                 /\ boot.renderer \notin boot.failed)
        /\ boot.stage = "rejected" => (boot.frames = 0 /\ boot.loop = "off")
        /\ (boot.stage = "rejected" /\ boot.main = "halted") => Diags("error") = 1)
  /\ ("webgpu" \in boot.failed) ~> (Tried("webgl2") = 1)
  /\ (boot.stage = "rejected") ~> (boot.main = "halted" /\ Diags("error") = 1)

\* the loop renders with the WebGL2 renderer after WebGPU failed
C20_Witness ==
  /\ boot.param # "webgl2"
  /\ boot.tried = <<"webgpu", "webgl2">>
  /\ boot.renderer = "webgl2"
  /\ boot.loop = "running"
  /\ boot.frames >= 2

\* the frame a renderer of the other backend, sized to the same surface,
\* makes of the same draw calls, uniforms and options
OtherBackend(b) == IF b = "webgl2" THEN "webgpu" ELSE "webgl2"

PeerFrame ==
  LET o == OtherBackend(backend)
      r0 == GrowPools(o, Rebuild(o, InitRenderer, rd.D), Len(fr.drawCalls))
  IN RenderPasses(o, [r |-> r0, f |-> NewFrame(fr.drawCalls, fr.u, fr.opts)], NaNProj)

SamePasses == Rendered => PeerFrame.f.passLog = fr.passLog
SameShadowDraws == Rendered => PeerFrame.f.shadowDrawn = fr.shadowDrawn
SameGeometryDraws == Rendered => PeerFrame.f.gbufDrawn = fr.gbufDrawn
SameComposite == Rendered => PeerFrame.f.params = fr.params
SameBackground ==
  Rendered => \A p \in Pixels : ~Occupied(p) => PeerFrame.r.hdr[p].rgb = rd.hdr[p].rgb
SameEmissive ==
  Rendered => \A p \in Pixels : Occupied(p) => PeerFrame.r.hdr[p].kind = rd.hdr[p].kind

\* C21: for the same draw calls, uniforms, options and surface size the two
\* backends issue the same passes on the same targets, draw the same draw
\* calls in the shadow and in the geometry pass, set the same composite
\* parameters, and agree on the background colour and on which pixels are
\* output as emissive.
C21_BackendsAgree ==
  /\ SamePasses
  /\ SameShadowDraws
  /\ SameGeometryDraws
  /\ SameComposite
  /\ SameBackground
  /\ SameEmissive

\* the frame a renderer without history, of the same backend and sized to
\* the same surface, makes of the same draw calls, uniforms and options
FreshFrame(dz) ==
  LET r0 == GrowPools(backend, Rebuild(backend, InitRenderer, rd.D), Len(fr.drawCalls))
  IN RenderPasses(backend, [r |-> r0, f |-> NewFrame(fr.drawCalls, fr.u, fr.opts)], dz)

\* C22: a frame does not depend on the frames before it: its passes, the
\* light view-projection its lighting pass uses, its composite parameters
\* and its lit image are those a renderer without history produces from the
\* same draw calls, uniforms and options.
C22_NoFrameHistory ==
  Rendered =>
    \E dz \in DivZeroOutcomes :
      LET n == FreshFrame(dz)
      IN /\ n.f.passLog = fr.passLog
         /\ n.f.shadowDrawn = fr.shadowDrawn
         /\ n.f.params = fr.params
         /\ n.r.lightLVP = rd.lightLVP
         /\ n.r.hdr = rd.hdr

\* the HDR value the composite shader tone-maps with post-processing on
HdrIn == Add3(px.h.rgb, Scale(px.bloom, CompositeParams(TRUE).bloomStrength, 10))

\* C23: with postProcessing on, the composite output of the HDR value
\* (0, 0, 0) is (0, 0, 0); every channel of every output lies between 0 and 1;
\* and a value far above the curve's shoulder comes out as exactly (1, 1, 1).
C23_ToneMapRange ==
  (px.stage = "done" /\ px.pp) =>
    /\ \A i \in 1..3 : px.out[i] >= 0 /\ px.out[i] <= ColorOne
    /\ HdrIn = Black => px.out = Black
    /\ (\A i \in 1..3 : HdrIn[i] >= 8 * ColorOne) => px.out = White

\* an input above 7.24, where the unclamped curve exceeds 1
C23_Witness ==
  /\ px.stage = "done"
  /\ px.pp
  /\ \A i \in 1..3 : HdrIn[i] >= 8 * ColorOne
  /\ px.out = White

\* the passes after the lighting pass, each with the textures it samples
PostPasses ==
  [i \in 1..Len(fr.reads) |->
     [pass |-> fr.passLog[i + 3].pass, target |-> fr.passLog[i + 3].target,
      reads |-> fr.reads[i]]]

\* C24: with postProcessing on, extraction writes bloom texture 0; then five
\* times a horizontal pass reads texture 0 and writes texture 1 and a
\* vertical pass reads texture 1 and writes texture 0; no blur pass samples
\* the texture it renders to; and the composite pass samples texture 0, which
\* holds the output of the fifth vertical pass.
C24_PingPong ==
  (Rendered /\ fr.opts.postProcessing) =>
    /\ Len(fr.reads) = 2 + 2 * BLOOM_PASSES
    /\ Len(fr.passLog) = 3 + Len(fr.reads)
    /\ PostPasses[1] = [pass |-> "extract", target |-> "bloom0", reads |-> {"hdr"}]
    /\ \A k \in 1..BLOOM_PASSES :
         /\ PostPasses[2 * k] =
              [pass |-> "blurH", target |-> "bloom1", reads |-> {"bloom0"}]
         /\ PostPasses[2 * k + 1] =
              [pass |-> "blurV", target |-> "bloom0", reads |-> {"bloom1"}]
    /\ \A i \in 1..Len(fr.reads) : PostPasses[i].target \notin PostPasses[i].reads
    /\ PostPasses[Len(fr.reads)] =
         [pass |-> "composite", target |-> "screen", reads |-> {"hdr", "bloom0"}]
    /\ rd.bloom[0].by = "blurV" /\ rd.bloom[0].n = BLOOM_PASSES
    /\ rd.bloom[1].by = "blurH" /\ rd.bloom[1].n = BLOOM_PASSES

\* a post-processed frame: twelve passes after the lighting pass
C24_Witness ==
  /\ Rendered
  /\ fr.opts.postProcessing
  /\ Len(fr.reads) = 12
  /\ rd.bloom[0].by = "blurV"
  /\ \A p \in Pixels : rd.screen[p].bloomSt = "cur"

PoolIds(pool) == {pool[i].id : i \in 1..Len(pool)}
Injective(q) == \A i, j \in 1..Len(q) : q[i] = q[j] => i = j

\* C25: on WebGPU draw call i of the shadow pass and of the geometry pass
\* binds buffer i of its own pool, which exists and holds that draw call's
\* data; no two draw calls of one pass share a buffer and the two pools have
\* no buffer in common.
C25_PoolIndexing ==
  backend = "webgpu" =>
    /\ Len(fr.shadowBufs) = Len(fr.shadowDrawn)
    /\ \A k \in 1..Len(fr.shadowDrawn) :
         LET i == fr.shadowDrawn[k] IN
         /\ i <= Len(rd.shadowPool)
         /\ fr.shadowBufs[k] = [pool |-> "shadow", k |-> i]
         /\ rd.shadowPool[i].id = fr.shadowBufs[k]
         /\ rd.shadowPool[i].x = fr.drawCalls[i].pix
    /\ Len(fr.gbufBufs) = Len(fr.gbufDrawn)
    /\ \A k \in 1..Len(fr.gbufDrawn) :
         LET i == fr.gbufDrawn[k] IN
         /\ i <= Len(rd.gbufPool)
         /\ fr.gbufBufs[k] = [pool |-> "gbuf", k |-> i]
         /\ rd.gbufPool[i].id = fr.gbufBufs[k]
         /\ rd.gbufPool[i].x = fr.drawCalls[i].pix
    /\ Injective(fr.shadowBufs) /\ Injective(fr.gbufBufs)
    /\ Injective([i \in 1..Len(rd.shadowPool) |-> rd.shadowPool[i].id])
    /\ Injective([i \in 1..Len(rd.gbufPool) |-> rd.gbufPool[i].id])
    /\ PoolIds(rd.shadowPool) \cap PoolIds(rd.gbufPool) = {}

\* a WebGPU frame of two draw calls at different positions, both drawn in
\* both passes
C25_Witness ==
  /\ backend = "webgpu"
  /\ Rendered
  /\ Len(fr.drawCalls) = 2
  /\ fr.drawCalls[1].pix # fr.drawCalls[2].pix
  /\ Len(fr.shadowBufs) = 2
  /\ Len(fr.gbufBufs) = 2

TickOrder == <<"resize", "update", "buildFrame", "renderFrame", "schedule">>
IsPrefix(q, full) == Len(q) <= Len(full) /\ \A i \in 1..Len(q) : q[i] = full[i]

\* C26: the calls of one tick are resize, update, buildFrame, renderFrame and
\* then the scheduling of the next tick, in this order and each at most once;
\* renderFrame is called at most once per tick, after that tick's resize, and
\* it receives the draw calls built from the scene as that tick's update left
\* it; the next tick is scheduled only after renderFrame has returned.
C26_TickOrder ==
  /\ [](/\ IsPrefix(eng.calls, TickOrder)
        /\ eng.renders <= eng.ticks
        /\ Len(eng.calls) >= 4 =>
             /\ eng.version = eng.ticks
             /\ eng.given = [drawCalls |-> BuildFrame(eng.entities),
                             version |-> eng.ticks])
  /\ [][/\ eng'.renders > eng.renders =>
             /\ eng'.renders = eng.renders + 1
             /\ eng.calls = <<"resize", "update", "buildFrame">>
        /\ (eng'.issued > eng.issued /\ eng.at # "idle") =>
             /\ eng.calls = <<"resize", "update", "buildFrame", "renderFrame">>
             /\ eng'.pending = eng.pending \cup {eng'.rafId}
             /\ eng'.at = "idle"]_vars

\* the second tick of a loop over two entities has run to its end
C26_Witness ==
  /\ eng.at = "idle"
  /\ eng.calls = TickOrder
  /\ eng.ticks = 2 /\ eng.renders = 2
  /\ Len(eng.given.drawCalls) = 2
  /\ eng.given.version = 2
  /\ eng.pending # {}

\* C27: the scene hands renderFrame one draw call per entity, in insertion
\* order, and the draw call of an entity is emissive exactly when the
\* entity's material is.
C27_EmissiveCarried ==
  Len(eng.calls) >= 4 =>
    /\ Len(eng.given.drawCalls) = Len(eng.entities)
    /\ \A i \in 1..Len(eng.entities) :
         /\ eng.given.drawCalls[i].mesh = i
         /\ eng.given.drawCalls[i].emissive = eng.entities[i].emissive

\* C30: once stop() has been called, and until start() is called again, no
\* tick begins and renderFrame is not called.
C30_StopHalts ==
  [][eng.stopped => (eng'.ticks = eng.ticks /\ eng'.renders = eng.renders)]_vars

\* C28: once a resize() call has returned, the G-Buffer, the HDR target and
\* the bloom pair exist, whatever size the call detected, and no pass of a
\* frame uses a screen-sized resource that was never created.
C28_SizedBeforeRender ==
  /\ pc = "resized" =>
       (rd.gen.gbuf # "none" /\ rd.gen.hdr # "none" /\ rd.gen.bloom # "none")
  /\ "none" \notin fr.gensUsed

FullscreenPasses == {"light", "extract", "blurH", "blurV", "composite"}

\* C29: on WebGL2 the GL state between calls is always DEPTH_TEST enabled,
\* CULL_FACE disabled, cull mode BACK, and so it is at the entry of every
\* frame; in a frame the shadow and geometry passes run with the depth test
\* on, every fullscreen pass with it off, and face culling is on, with mode
\* FRONT, during the shadow draws and at no other time.
C29_GlStateRestored ==
  backend = "webgl2" =>
    /\ rd.gl = InitGl
    /\ fr.passLog # <<>> =>
         /\ fr.glEntry = InitGl
         /\ Len(fr.glLog) = Len(fr.passLog)
         /\ \A i \in 1..Len(fr.passLog) :
              LET pass == fr.passLog[i].pass
                  g == fr.glLog[i]
              IN /\ pass \in {"shadow", "gbuf"} => g.depthTest
                 /\ pass \in FullscreenPasses => ~g.depthTest
                 /\ g.cullFace <=> (pass = "shadow" /\ ShadowEnabled(fr.opts, fr.u))
                 /\ g.cullMode = (IF g.cullFace THEN "FRONT" ELSE "BACK")

\* a WebGL2 frame with shadow draws and post-processing, at its exit
C29_Witness ==
  /\ backend = "webgl2"
  /\ Rendered
  /\ fr.shadowDrawn # <<>>
  /\ fr.opts.postProcessing
  /\ Len(fr.glLog) = 5 + 2 * BLOOM_PASSES
  /\ fr.glLog[1].cullFace /\ fr.glLog[1].depthTest
  /\ ~fr.glLog[3].depthTest
  /\ fr.glEntry = InitGl
  /\ rd.gl = InitGl

====
